---------------------------- MODULE Spec2Model ----------------------------
(***************************************************************************)
(* Model of generate_audio.py: generate_tone (per-sample synthesis, PCM    *)
(* encoding, WAV write), create_dataset_contents (Contents.json) and the   *)
(* driver main() over the fixed table of eleven tones.                     *)
(*                                                                         *)
(* Numbers.  Python floats are modelled as exact rationals <<num, den>>    *)
(* with den > 0.  Durations are given in tenths of a second (as in the     *)
(* table of main), amplitudes as <<an, ad, e>> for (an / ad) * 10^e, with  *)
(* e = 0 or e near the top of the double range, so that a product that     *)
(* leaves the range (and becomes inf) is seen.  math.sin is                *)
(* tabulated at multiples of 1/12 cycle, in units of 1/SinDen; the sample  *)
(* rates of the model divide 12, so every phase f*i/sr is in the table.    *)
(* Where the mathematical sine is 0 but the argument is not the float 0.0  *)
(* (i > 0), the float result is a rounding residue of some 1e-16 whose     *)
(* sign the inputs determine; the model fixes that sign per parity of the  *)
(* half-cycle in fperr, chosen once in Init and never changed.  Apart from *)
(* these residues and the range, rounding is not modelled.                 *)
(*                                                                         *)
(* Filesystem.  dirs is the set of existing directories, files maps each   *)
(* existing regular file to its content.  A path is the sequence of its    *)
(* components.  Any operation that touches the filesystem may fail with    *)
(* an OSError; the exception propagates and ends the run.  A write that    *)
(* fails after the open leaves the file truncated.  What the script prints *)
(* is left out.                                                            *)
(*                                                                         *)
(* Definitions named ...Mut... are faulty variants of the definition that  *)
(* follows them; a property is only worth having if it tells them apart.   *)
(***************************************************************************)
EXTENDS Integers, Sequences, FiniteSets, TLC

VARIABLES
    \* ---- the filesystem
    dirs, files,
    \* ---- generate_tone: arguments, locals, position
    frequency, duration, sample_rate, amplitude, wave_type,
    i, samples, decay,
    fperr,
    \* ---- control
    pc, err,
    \* ---- main: loop position, and what the run started from
    idx, run, start, trace,
    \* ---- repeated calls of generate_tone
    call, history,
    \* ---- entries taken in any order
    order

vars == <<dirs, files, frequency, duration, sample_rate, amplitude, wave_type,
          i, samples, decay, fperr, pc, err, idx, run, start, trace, call,
          history, order>>

toneVars == <<frequency, duration, sample_rate, amplitude, wave_type,
              i, samples, decay, fperr>>

-----------------------------------------------------------------------------
(* Bounds of the model *)

MaxFreq == 2
MaxDur10 == 6
MaxCalls == 3
MaxRuns == 3
MaxPar == 2

-----------------------------------------------------------------------------
(* Numeric helpers *)

Max(a, b) == IF a >= b THEN a ELSE b
Min(a, b) == IF a <= b THEN a ELSE b

\* int(x) of a float x = n/d, d > 0: truncation toward zero
Trunc(n, d) == IF n >= 0 THEN n \div d ELSE -((-n) \div d)

\* math.floor(n/d), d > 0
Floor(n, d) == n \div d

\* durations are counted in tenths of a second
DurDen == 10

\* frames = int(duration * sample_rate)
\* (variant: round to nearest)
FramesMutRound(dur10, sr) == (dur10 * sr + 5) \div DurDen

Frames(dur10, sr) == Trunc(dur10 * sr, DurDen)

\* math.sin at k/12 of a cycle, k = 0..11, in units of 1/SinDen
SinDen == 30
SinTable == <<0, 15, 26, 30, 26, 15, 0, -15, -26, -30, -26, -15>>

\* the phase frequency * t = frequency * n / sr, in twelfths of a cycle
Phase12(f, n, sr) == (12 * f * n) \div sr

\* math.sin(2 * math.pi * frequency * t) as <<num, den, e>>: the table value,
\* or, where the table holds 0: exactly 0.0 at t = 0.0, and at a later zero
\* crossing the rounding residue, some 1e-16 with the sign fe gives the
\* half-cycle's parity
SinValue(f, n, sr, fe) ==
    LET s == SinTable[(Phase12(f, n, sr) % 12) + 1]
    IN  IF s # 0 THEN <<s, SinDen, 0>>
        ELSE IF f * n = 0 THEN <<0, 1, 0>>
        ELSE <<fe[((Phase12(f, n, sr) \div 6) % 2) + 1], 1, -16>>

\* the sign of math.sin(2 * math.pi * frequency * t)
SinSign(f, n, sr, fe) ==
    LET s == SinValue(f, n, sr, fe)[1]
    IN  IF s > 0 THEN 1 ELSE IF s < 0 THEN -1 ELSE 0

\* amplitude * x
Times(amp, x) == <<amp[1] * x[1], amp[2] * x[2], amp[3] + x[3]>>

\* value = amplitude * <waveform at t>, as a fraction
\* (variant: the square wave tests >= 0)
WaveValueMutGe(f, n, sr, amp, wt, fe) ==
    IF wt = "sine"
    THEN Times(amp, SinValue(f, n, sr, fe))
    ELSE IF wt = "square"
    THEN <<amp[1] * (IF SinSign(f, n, sr, fe) >= 0 THEN 1 ELSE -1), amp[2], amp[3]>>
    ELSE IF wt = "sawtooth"
    THEN <<amp[1] * (2 * (f * n - sr * Floor(2 * f * n + sr, 2 * sr))),
           amp[2] * sr, amp[3]>>
    ELSE Times(amp, SinValue(f, n, sr, fe))

WaveValue(f, n, sr, amp, wt, fe) ==
    IF wt = "sine"
    THEN Times(amp, SinValue(f, n, sr, fe))
    ELSE IF wt = "square"
    THEN <<amp[1] * (IF SinSign(f, n, sr, fe) > 0 THEN 1 ELSE -1), amp[2], amp[3]>>
    ELSE IF wt = "sawtooth"
    THEN <<amp[1] * (2 * (f * n - sr * Floor(2 * f * n + sr, 2 * sr))),
           amp[2] * sr, amp[3]>>
    ELSE Times(amp, SinValue(f, n, sr, fe))

\* decay = max(0.1, 1 - (t / duration) * 0.7), t = n / sr, as a fraction:
\* (t / duration) * 0.7 = 7 n / (sr * dur10)
\* (variant: the envelope falls by 1.0 instead of 0.7)
DecayMutRate(n, dur10, sr) ==
    LET lin == <<sr * dur10 - 10 * n, sr * dur10>>
    IN  IF 10 * lin[1] < lin[2] THEN <<1, 10>> ELSE lin

Decay(n, dur10, sr) ==
    LET lin == <<sr * dur10 - 7 * n, sr * dur10>>
    IN  IF 10 * lin[1] < lin[2] THEN <<1, 10>> ELSE lin

\* The largest double is about 1.7976e308 = FloatMaxMant * 10^FloatMaxExp; a
\* product beyond it is inf.
FloatMaxMant == 17976
FloatMaxExp == 304

Abs(n) == IF n >= 0 THEN n ELSE -n

\* (n / d) * 10^e lies beyond the double range; 1e-9 < |n / d| < 2e9, and e is
\* 0, or -16 (a residue), or 284 and more (a huge amplitude), at most 305
IsInf(n, d, e) ==
    IF e < FloatMaxExp - 5 THEN FALSE
    ELSE IF e <= FloatMaxExp
    THEN Abs(n) \div d >= FloatMaxMant * 10^(FloatMaxExp - e)
    ELSE Abs(n) * 10^(e - FloatMaxExp) >= FloatMaxMant * d

\* value * 32767, value already multiplied by decay, is inf: int() of it raises
\* OverflowError
ScaleOverflows(v, d) == IsInf(v[1] * d[1] * 32767, v[2] * d[2], v[3])

\* an integer outside the 16-bit range; it stands for every int() result of
\* 10^299 and more, which the clamp that follows does not tell apart
Beyond16 == 1000000

\* int(value * 32767) with value already multiplied by decay
Scale(v, d) ==
    IF v[3] = 0 THEN Trunc(v[1] * d[1] * 32767, v[2] * d[2])
    ELSE IF v[3] < 0 THEN 0
    ELSE IF v[1] > 0 THEN Beyond16
    ELSE IF v[1] < 0 THEN -Beyond16
    ELSE 0

\* max(-32767, min(32767, sample_value))
\* (variant: the lower bound is -32768)
ClampMutFull(v) == Max(-32768, Min(32767, v))

Clamp(v) == Max(-32767, Min(32767, v))

\* sample_value of index n
SampleValue(f, n, dur10, sr, amp, wt, fe) ==
    Clamp(Scale(WaveValue(f, n, sr, amp, wt, fe), Decay(n, dur10, sr)))

\* struct.pack('<h', v): two bytes, little endian, two's complement
CanPack(v) == v >= -32768 /\ v <= 32767
Pack(v) == <<v % 256, (v \div 256) % 256>>

\* struct.unpack('<h', b)
Unpack(b) == LET u == b[1] + 256 * b[2] IN IF u >= 32768 THEN u - 65536 ELSE u


\* b''.join(samples)
RECURSIVE Join(_)
Join(ss) == IF ss = <<>> THEN <<>> ELSE ss[1] \o Join(Tail(ss))

-----------------------------------------------------------------------------
(* The filesystem *)

\* os.path.dirname and os.path.basename of a path given by its components
Dirname(p) == SubSeq(p, 1, Len(p) - 1)
Basename(p) == p[Len(p)]

\* the first k ancestors of p (p itself when k = Len(p))
Prefixes(p, k) == {SubSeq(p, 1, j) : j \in 1..k}

\* the levels of p that os.makedirs has to create
Missing(p, d) == {j \in 1..Len(p) : SubSeq(p, 1, j) \notin d}

\* os.makedirs(p, exist_ok): creates the missing levels top down.  failAt = 0:
\* no mkdir fails; failAt = j: mkdir of level j raises OSError, the levels
\* above it stay created.  An existing leaf raises only without exist_ok.
MakeDirs(p, exist_ok, d, failAt) ==
    IF failAt # 0
    THEN [dirs |-> d \cup Prefixes(p, failAt - 1), err |-> "OSError"]
    ELSE IF p \in d /\ ~exist_ok
    THEN [dirs |-> d, err |-> "FileExistsError"]
    ELSE [dirs |-> d \cup Prefixes(p, Len(p)), err |-> "none"]

\* the exist_ok argument generate_tone passes
\* (variant: exist_ok=False)
ExistOkMutFalse == FALSE

ExistOk == TRUE

\* a file opened with mode 'w' and not yet written: zero bytes
EmptyFile == [kind |-> "empty", hdr |-> <<>>, data |-> <<>>]

\* the file p holds content c after open(p, 'w') ... write ... close
\* (variant: mode 'a', the content is appended)
PutMutAppend(fl, p, c) ==
    [q \in DOMAIN fl \cup {p} |->
        IF q # p THEN fl[q]
        ELSE IF p \in DOMAIN fl
             THEN [kind |-> c.kind, hdr |-> c.hdr, data |-> fl[p].data \o c.data]
             ELSE c]

Put(fl, p, c) == [q \in DOMAIN fl \cup {p} |-> IF q = p THEN c ELSE fl[q]]

\* open(p, 'w') followed by the writes and the close.  The open raises
\* FileNotFoundError when the directory of p does not exist.  outcome "open":
\* the open raises OSError and nothing changes; "write": the open has
\* truncated the file and a later write raises; "ok": c is written.
WriteOutcomes == {"ok", "open", "write"}
WriteFile(p, c, d, fl, outcome) ==
    IF Dirname(p) \notin d
    THEN [files |-> fl, err |-> "FileNotFoundError"]
    ELSE IF outcome = "open"
    THEN [files |-> fl, err |-> "OSError"]
    ELSE IF outcome = "write"
    THEN [files |-> Put(fl, p, EmptyFile), err |-> "OSError"]
    ELSE [files |-> Put(fl, p, c), err |-> "none"]

\* the WAV file wave.open(..., 'w') writes: setnchannels(1), setsampwidth(2),
\* setframerate(sample_rate), the number of frames, then the frames
WavFile(sr, nframes, data) ==
    [kind |-> "wav", hdr |-> <<1, 2, sr, nframes>>, data |-> data]

-----------------------------------------------------------------------------
(* create_dataset_contents *)

\* the contents dictionary
\* (variant: "filename" holds the dataset name)
ContentsMutName(dataset_name, filename) ==
    [data |-> <<[filename |-> dataset_name, idiom |-> "universal"]>>,
     info |-> [author |-> "xcode", version |-> 1]]

Contents(dataset_name, filename) ==
    [data |-> <<[filename |-> filename, idiom |-> "universal"]>>,
     info |-> [author |-> "xcode", version |-> 1]]

\* json.dump(contents, f, indent=2), as the sequence of JSON tokens
Quote(s) == "\"" \o s \o "\""
JsonDump(c) ==
    <<"{", Quote("data"), ":", "[", "{",
        Quote("filename"), ":", Quote(c.data[1].filename), ",",
        Quote("idiom"), ":", Quote(c.data[1].idiom), "}", "]", ",",
      Quote("info"), ":", "{",
        Quote("author"), ":", Quote(c.info.author), ",",
        Quote("version"), ":", ToString(c.info.version), "}", "}">>

JsonFile(tokens) == [kind |-> "json", hdr |-> <<>>, data |-> tokens]

\* the value token of a string key in a token sequence (the first occurrence)
JsonValue(tokens, key) ==
    LET at == {k \in 1..(Len(tokens) - 2) :
                  tokens[k] = Quote(key) /\ tokens[k + 1] = ":"}
    IN  IF at = {} THEN "" ELSE tokens[(CHOOSE k \in at : \A m \in at : k <= m) + 2]

\* f"blockbomb/Assets.xcassets/{dataset_name}.dataset/Contents.json"
\* (variants: one dataset for all; an assets directory main does not create)
ContentsPathMutFixed(dataset_name) ==
    <<"blockbomb", "Assets.xcassets", "block_place.dataset", "Contents.json">>

ContentsPathMutRoot(dataset_name) ==
    <<"blockbomb", "Assets.xcasset", dataset_name \o ".dataset", "Contents.json">>

ContentsPath(dataset_name) ==
    <<"blockbomb", "Assets.xcassets", dataset_name \o ".dataset", "Contents.json">>

-----------------------------------------------------------------------------
(* main: the table and the paths *)

assets_dir == <<"blockbomb", "Assets.xcassets">>

audio_files == <<
    [name |-> "block_place",       freq |-> 440,  dur10 |-> 1,  wave_type |-> "sine"],
    [name |-> "line_clear_single", freq |-> 523,  dur10 |-> 3,  wave_type |-> "sine"],
    [name |-> "line_clear_double", freq |-> 659,  dur10 |-> 4,  wave_type |-> "sine"],
    [name |-> "line_clear_triple", freq |-> 784,  dur10 |-> 5,  wave_type |-> "sine"],
    [name |-> "line_clear_quad",   freq |-> 1047, dur10 |-> 6,  wave_type |-> "sine"],
    [name |-> "combo_small",       freq |-> 880,  dur10 |-> 4,  wave_type |-> "sawtooth"],
    [name |-> "combo_medium",      freq |-> 1109, dur10 |-> 5,  wave_type |-> "sawtooth"],
    [name |-> "combo_large",       freq |-> 1319, dur10 |-> 6,  wave_type |-> "sawtooth"],
    [name |-> "game_over",         freq |-> 220,  dur10 |-> 10, wave_type |-> "sine"],
    [name |-> "new_high_score",    freq |-> 1760, dur10 |-> 15, wave_type |-> "sine"],
    [name |-> "invalid_placement", freq |-> 150,  dur10 |-> 2,  wave_type |-> "square"] >>

NumFiles == Len(audio_files)

\* filename = f"{name}.wav"
Filename(name) == name \o ".wav"
\* dataset_path = f"{assets_dir}/{name}.dataset"
DatasetPath(name) == Append(assets_dir, name \o ".dataset")
\* audio_path = f"{dataset_path}/{filename}"
AudioPath(name) == Append(DatasetPath(name), Filename(name))

\* the defaults of generate_tone
DefaultSampleRate == 44100
DefaultAmplitude == <<3, 10, 0>>

\* the frames generate_tone(audio_path, freq, duration, wave_type=wave_type)
\* joins, named by the arguments that determine them
ToneData(e) ==
    <<[frequency |-> e.freq, duration |-> e.dur10,
       sample_rate |-> DefaultSampleRate, amplitude |-> DefaultAmplitude,
       wave_type |-> e.wave_type]>>

\* the file generate_tone leaves at audio_path
MainWav(e) ==
    WavFile(DefaultSampleRate, Frames(e.dur10, DefaultSampleRate), ToneData(e))

\* the file create_dataset_contents(name, filename) leaves
MainJson(e) == JsonFile(JsonDump(Contents(e.name, Filename(e.name))))

-----------------------------------------------------------------------------
(* generate_tone, sample by sample, on inputs from bounded sets *)

SampleRates == {4, 12}
\* 0.3, 1.2, -1.2, 0.00001, 1e300, 1e305
Amplitudes == {<<3, 10, 0>>, <<12, 10, 0>>, <<-12, 10, 0>>, <<1, 100000, 0>>,
               <<1, 1, 300>>, <<1, 1, 305>>}
WaveTypes == {"sine", "square", "sawtooth", "triangle"}

\* the filename argument of the calls
ToneFile == AudioPath("block_place")

\* a WAV file some earlier program left at the output path
StaleWav == WavFile(8000, 1, <<0, 0>>)

\* the arguments of the call in progress
Args == [frequency |-> frequency, duration |-> duration,
         sample_rate |-> sample_rate, amplitude |-> amplitude,
         wave_type |-> wave_type]

\* values of the variables that belong to main
MainIdle == idx = 0 /\ run = 0 /\ start = <<>> /\ trace = <<>> /\ order = <<>>
\* values of the variables that belong to generate_tone's body
ToneIdle ==
    /\ frequency = 0 /\ duration = 0 /\ sample_rate = 0 /\ amplitude = <<0, 1, 0>>
    /\ wave_type = "" /\ i = 0 /\ samples = <<>> /\ decay = <<>>
    /\ fperr = <<1, 1>> /\ call = 0 /\ history = <<>>

ToneInit ==
    /\ frequency \in 1..MaxFreq
    /\ duration \in 1..MaxDur10
    /\ sample_rate \in SampleRates
    /\ amplitude \in Amplitudes
    /\ wave_type \in WaveTypes
    /\ fperr \in [1..2 -> {-1, 1}]
    /\ i = 0 /\ samples = <<>> /\ decay = <<>>
    /\ pc = "loop" /\ err = "none"
    /\ call = 1 /\ history = <<>>
    /\ \/ dirs = {} /\ files = <<>>
       \/ /\ dirs = Prefixes(Dirname(ToneFile), Len(ToneFile) - 1)
          /\ files = Put(<<>>, ToneFile, StaleWav)
    /\ MainIdle

\* one iteration of "for i in range(frames)": lines 18-37
ToneSample ==
    /\ pc = "loop"
    /\ i < Frames(duration, sample_rate)
    /\ LET d == Decay(i, duration, sample_rate)
           v == SampleValue(frequency, i, duration, sample_rate, amplitude,
                            wave_type, fperr)
           w == WaveValue(frequency, i, sample_rate, amplitude, wave_type, fperr)
       IN  IF ScaleOverflows(w, d)
           THEN /\ pc' = "raised" /\ err' = "OverflowError"
                /\ UNCHANGED <<samples, decay, i>>
           ELSE IF CanPack(v)
           THEN /\ samples' = Append(samples, Pack(v))
                /\ decay' = Append(decay, d)
                /\ i' = i + 1
                /\ UNCHANGED <<pc, err>>
           ELSE /\ pc' = "raised" /\ err' = "struct.error"
                /\ UNCHANGED <<samples, decay, i>>
    /\ UNCHANGED <<dirs, files, frequency, duration, sample_rate, amplitude,
                   wave_type, fperr, idx, run, start, trace, call, history, order>>

\* the loop is over: os.makedirs(os.path.dirname(filename), exist_ok=True)
ToneMakeDirs ==
    /\ pc = "loop"
    /\ i >= Frames(duration, sample_rate)
    /\ \E failAt \in {0} \cup Missing(Dirname(ToneFile), dirs) :
          LET r == MakeDirs(Dirname(ToneFile), ExistOk, dirs, failAt)
          IN  /\ dirs' = r.dirs
              /\ err' = r.err
              /\ pc' = IF r.err = "none" THEN "wave_open" ELSE "raised"
    /\ UNCHANGED <<files, toneVars, idx, run, start, trace, call, history, order>>

\* with wave.open(filename, 'w') ...: writeframes(b''.join(samples))
ToneWaveWrite ==
    /\ pc = "wave_open"
    /\ \E outcome \in WriteOutcomes :
          LET data == Join(samples)
              r == WriteFile(ToneFile, WavFile(sample_rate, Len(data) \div 2, data),
                             dirs, files, outcome)
          IN  /\ files' = r.files
              /\ err' = r.err
              /\ pc' = IF r.err = "none" THEN "returned" ELSE "raised"
              /\ history' = IF r.err = "none"
                            THEN Append(history, [args |-> Args, out |-> r.files[ToneFile]])
                            ELSE history
    /\ UNCHANGED <<dirs, toneVars, idx, run, start, trace, call, order>>

\* the caller calls generate_tone again, with the same arguments or with
\* another waveform
OtherWave(w) == IF w = "square" THEN "sine" ELSE "square"
ToneCallAgain ==
    /\ pc = "returned"
    /\ call < MaxCalls
    /\ call' = call + 1
    /\ wave_type' \in {wave_type, OtherWave(wave_type)}
    /\ i' = 0 /\ samples' = <<>> /\ decay' = <<>>
    /\ pc' = "loop"
    /\ UNCHANGED <<dirs, files, frequency, duration, sample_rate, amplitude,
                   fperr, err, idx, run, start, trace, history, order>>

ToneNext == ToneSample \/ ToneMakeDirs \/ ToneWaveWrite \/ ToneCallAgain

SpecTone == ToneInit /\ [][ToneNext]_vars

-----------------------------------------------------------------------------
(* Properties of generate_tone, checked under SpecTone *)

\* the decoded value of the k-th sample appended
Decoded(k) == Unpack(samples[k])

\* the loop of the call in progress has run to its end
LoopDone == pc \in {"wave_open", "returned"}

\* 0 < amplitude <= 1
ValidAmplitude ==
    amplitude[3] = 0 /\ amplitude[1] > 0 /\ amplitude[1] <= amplitude[2]

\* the sample values are 16-bit values within [-32767, 32767], in the list
\* and in every file written
SamplesInRange ==
    /\ \A k \in 1..Len(samples) : Decoded(k) >= -32767 /\ Decoded(k) <= 32767
    /\ \A h \in 1..Len(history) :
          LET data == history[h].out.data
          IN  \A k \in 1..(Len(data) \div 2) :
                 /\ data[2 * k - 1] \in 0..255 /\ data[2 * k] \in 0..255
                 /\ Unpack(<<data[2 * k - 1], data[2 * k]>>) \in -32767..32767

C6_Deterministic ==
    \A a, b \in 1..Len(history) :
        history[a].args = history[b].args => history[a].out = history[b].out

\* three calls have returned, the first and the third with the same
\* arguments, the second with a different waveform
C6_Witness ==
    /\ Len(history) = 3
    /\ history[1].args = history[3].args
    /\ history[2].args # history[1].args
    /\ history[2].out # history[1].out
    /\ Len(history[1].out.data) >= 4

\* the value a square sample has to have, up to its sign
SquareMagnitude(k) ==
    Trunc(amplitude[1] * decay[k][1] * 32767, amplitude[2] * decay[k][2])

\* C7 as stated: for the square waveform and 0 < amplitude <= 1 every sample is
\* +amplitude*decay*32767 or -amplitude*decay*32767 truncated toward zero, is
\* never zero, and is the negative value where the sine is not greater than 0.
C7_Original ==
    (wave_type = "square" /\ ValidAmplitude) =>
        \A k \in 1..Len(samples) :
            /\ Decoded(k) \in {SquareMagnitude(k), -SquareMagnitude(k)}
            /\ Decoded(k) # 0
            /\ SinSign(frequency, k - 1, sample_rate, fperr) <= 0
                  => Decoded(k) = -SquareMagnitude(k)

\* C7, amended: as above, but the sample is nonzero exactly when
\* amplitude * decay * 32767 >= 1; a smaller product truncates to 0.
C7_SquareValues ==
    (wave_type = "square" /\ ValidAmplitude) =>
        \A k \in 1..Len(samples) :
            /\ Decoded(k) \in {SquareMagnitude(k), -SquareMagnitude(k)}
            /\ Decoded(k) # 0 <=>
                  amplitude[1] * decay[k][1] * 32767 >= amplitude[2] * decay[k][2]
            /\ SinSign(frequency, k - 1, sample_rate, fperr) <= 0
                  => Decoded(k) = -SquareMagnitude(k)
            /\ SinSign(frequency, k - 1, sample_rate, fperr) > 0
                  => Decoded(k) = SquareMagnitude(k)

\* a square tone at amplitude 0.3: sample 0 (sine exactly 0) is -9830, a later
\* sample is positive
C7_Witness ==
    /\ wave_type = "square" /\ amplitude = <<3, 10, 0>>
    /\ Len(samples) >= 2
    /\ Decoded(1) = -9830
    /\ \E k \in 2..Len(samples) : Decoded(k) > 0

\* C8: the decay at index 0 is 1.0, it never increases with the index, it
\* stays above 0.3 (so max(0.1, ...) never takes the 0.1), and at the last
\* index it is within 1.4 / (duration * sample_rate) of 0.3.
C8_Envelope ==
    /\ \A k \in 1..Len(decay) :
          /\ k = 1 => decay[k][1] = decay[k][2]
          /\ k > 1 => decay[k][1] * decay[k - 1][2] <= decay[k - 1][1] * decay[k][2]
          /\ 10 * decay[k][1] > 3 * decay[k][2]
          /\ decay[k] = <<sample_rate * duration - 7 * (k - 1), sample_rate * duration>>
    /\ (LoopDone /\ Len(decay) >= 1) =>
          LET last == decay[Len(decay)]
          IN  (10 * last[1] - 3 * last[2]) * duration * sample_rate < 140 * last[2]

\* a call has returned whose envelope fell strictly over at least 3 samples
C8_Witness ==
    /\ pc = "returned"
    /\ Len(decay) >= 3
    /\ decay[1][1] = decay[1][2]
    /\ decay[Len(decay)][1] * decay[1][2] < decay[1][1] * decay[Len(decay)][2]

-----------------------------------------------------------------------------
(* main, run on a filesystem that is empty at first; a finished or aborted  *)
(* run may be followed by another run of the script on what it left.        *)

\* no try/except anywhere: an exception ends the run, otherwise control goes on
\* (variant: the exception is swallowed)
AfterStepMutSwallow(e, next) == next

AfterStep(e, next) == IF e = "none" THEN next ELSE "raised"

Init ==
    /\ dirs = {} /\ files = <<>>
    /\ pc = "makedirs" /\ err = "none"
    /\ idx = 1 /\ run = 1
    /\ start = [dirs |-> {}, files |-> <<>>, completed |-> FALSE]
    /\ trace = <<>>
    /\ order = <<>>
    /\ ToneIdle

\* generate_tone(audio_path, freq, duration, wave_type=wave_type), up to and
\* with os.makedirs(os.path.dirname(filename), exist_ok=True); the sample loop
\* before it touches nothing outside the call, and with the default amplitude
\* 0.3 it raises nothing; its result is named by ToneData
MainMakeDirs ==
    /\ pc = "makedirs"
    /\ LET e == audio_files[idx]
           p == Dirname(AudioPath(e.name))
       IN  \E failAt \in {0} \cup Missing(p, dirs) :
              LET r == MakeDirs(p, ExistOk, dirs, failAt)
              IN  /\ dirs' = r.dirs
                  /\ err' = r.err
                  /\ pc' = AfterStep(r.err, "wave_open")
                  /\ trace' = Append(trace, [op |-> "makedirs", name |-> e.name,
                                             err |-> r.err])
    /\ UNCHANGED <<files, toneVars, idx, run, start, call, history, order>>

\* the rest of generate_tone: the WAV file is written at audio_path
MainWaveWrite ==
    /\ pc = "wave_open"
    /\ LET e == audio_files[idx]
       IN  \E outcome \in WriteOutcomes :
              LET r == WriteFile(AudioPath(e.name), MainWav(e), dirs, files, outcome)
              IN  /\ files' = r.files
                  /\ err' = r.err
                  /\ pc' = AfterStep(r.err, "contents")
                  /\ trace' = Append(trace, [op |-> "wav", name |-> e.name,
                                             err |-> r.err])
    /\ UNCHANGED <<dirs, toneVars, idx, run, start, call, history, order>>

\* create_dataset_contents(name, filename), then the next entry of the table
MainCreateContents ==
    /\ pc = "contents"
    /\ LET e == audio_files[idx]
       IN  \E outcome \in WriteOutcomes :
              LET r == WriteFile(ContentsPath(e.name), MainJson(e), dirs, files,
                                 outcome)
              IN  /\ files' = r.files
                  /\ err' = r.err
                  /\ pc' = AfterStep(r.err, IF idx = NumFiles THEN "done"
                                                              ELSE "makedirs")
                  /\ idx' = IF r.err = "none" /\ idx < NumFiles THEN idx + 1 ELSE idx
                  /\ trace' = Append(trace, [op |-> "contents", name |-> e.name,
                                             err |-> r.err])
    /\ UNCHANGED <<dirs, toneVars, run, start, call, history, order>>

\* the script is started again on the filesystem the last run left
MainRunAgain ==
    /\ pc \in {"done", "raised"}
    /\ run < MaxRuns
    /\ run' = run + 1
    /\ start' = [dirs |-> dirs, files |-> files, completed |-> (pc = "done")]
    /\ idx' = 1 /\ pc' = "makedirs" /\ err' = "none" /\ trace' = <<>>
    /\ UNCHANGED <<dirs, files, toneVars, call, history, order>>

Next == MainMakeDirs \/ MainWaveWrite \/ MainCreateContents \/ MainRunAgain

Spec == Init /\ [][Next]_vars

-----------------------------------------------------------------------------
(* Properties of main, checked under Spec *)

Names == {audio_files[k].name : k \in 1..NumFiles}

\* what a directory holds: its files, its subdirectories
FilesIn(d) == {p \in DOMAIN files : Dirname(p) = d}
DirsIn(d) == {p \in dirs : Len(p) = Len(d) + 1 /\ Dirname(p) = d}

\* both files of table entry k are there, complete
PairWritten(k) ==
    LET e == audio_files[k]
    IN  /\ AudioPath(e.name) \in DOMAIN files
        /\ files[AudioPath(e.name)] = MainWav(e)
        /\ ContentsPath(e.name) \in DOMAIN files
        /\ files[ContentsPath(e.name)] = MainJson(e)

\* C1: when main() has run to completion, the assets root holds exactly 11
\* <name>.dataset directories, one per table entry, all names distinct, each
\* holding exactly one <name>.wav and one Contents.json whose "filename" is the
\* name of the .wav beside it.
C1_DatasetLayout ==
    pc = "done" =>
        /\ Cardinality(Names) = 11
        /\ Cardinality(DirsIn(assets_dir)) = 11
        /\ DirsIn(assets_dir) = {Append(assets_dir, n \o ".dataset") : n \in Names}
        /\ FilesIn(assets_dir) = {}
        /\ \A d \in DirsIn(assets_dir) :
              LET wavs == {p \in FilesIn(d) : files[p].kind = "wav"}
                  descs == {p \in FilesIn(d) : files[p].kind = "json"}
              IN  /\ DirsIn(d) = {}
                  /\ Cardinality(FilesIn(d)) = 2
                  /\ Cardinality(wavs) = 1
                  /\ Cardinality(descs) = 1
                  /\ \A w \in wavs : \A c \in descs :
                        /\ Basename(c) = "Contents.json"
                        /\ \E n \in Names :
                              /\ d = Append(assets_dir, n \o ".dataset")
                              /\ Basename(w) = n \o ".wav"
                        /\ JsonValue(files[c].data, "filename") = Quote(Basename(w))

\* the first run, on the empty filesystem, has completed
C1_Witness ==
    /\ pc = "done" /\ run = 1 /\ err = "none"
    /\ Len(trace) = 3 * NumFiles
    /\ Cardinality(DOMAIN files) = 2 * NumFiles

\* C4: a run completes all eleven pairs or aborts at the first failure; when
\* it fails in entry k, every entry before k has its .wav and its Contents.json
\* complete, no entry after k was touched, and nothing that existed was removed.
C4_AbortAtFirstFailure ==
    /\ \A m \in 1..(Len(trace) - 1) : trace[m].err = "none"
    /\ pc = "done" =>
          /\ \A k \in 1..NumFiles : PairWritten(k)
          /\ Len(trace) = 3 * NumFiles
          /\ trace[Len(trace)].err = "none"
    /\ pc = "raised" =>
          /\ err # "none"
          /\ trace # <<>> /\ trace[Len(trace)].err = err
          /\ trace[Len(trace)].name = audio_files[idx].name
          /\ \A k \in 1..(idx - 1) : PairWritten(k)
          /\ \A k \in (idx + 1)..NumFiles :
                LET n == audio_files[k].name
                IN  /\ \A m \in 1..Len(trace) : trace[m].name # n
                    /\ DatasetPath(n) \in dirs <=> DatasetPath(n) \in start.dirs
                    /\ \A p \in {AudioPath(n), ContentsPath(n)} :
                          /\ p \in DOMAIN files <=> p \in DOMAIN start.files
                          /\ p \in DOMAIN files => files[p] = start.files[p]
          /\ start.dirs \subseteq dirs
          /\ DOMAIN start.files \subseteq DOMAIN files
    /\ start.dirs \subseteq dirs
    /\ DOMAIN start.files \subseteq DOMAIN files

\* a run has aborted in the middle of the table, while writing a .wav
C4_Witness ==
    /\ pc = "raised" /\ idx = 5
    /\ trace[Len(trace)].op = "wav"
    /\ AudioPath(audio_files[5].name) \in DOMAIN files
    /\ files[AudioPath(audio_files[5].name)] = EmptyFile
    /\ PairWritten(4)
    /\ DatasetPath(audio_files[6].name) \notin dirs

\* what holds of the steps in every state
StepOrder ==
    /\ \A m \in 1..Len(trace) :
          /\ (trace[m].op = "makedirs" /\ m > 1) =>
                /\ trace[m - 1].op = "contents"
                /\ trace[m - 1].err = "none"
          /\ trace[m].op = "wav" =>
                /\ m > 1
                /\ trace[m - 1] = [op |-> "makedirs", name |-> trace[m].name,
                                   err |-> "none"]
          /\ trace[m].op = "contents" =>
                /\ m > 1
                /\ trace[m - 1] = [op |-> "wav", name |-> trace[m].name,
                                   err |-> "none"]
    /\ pc = "wave_open" => DatasetPath(audio_files[idx].name) \in dirs
    /\ pc = "contents" =>
          /\ Dirname(ContentsPath(audio_files[idx].name)) \in dirs
          /\ AudioPath(audio_files[idx].name) \in DOMAIN files
          /\ files[AudioPath(audio_files[idx].name)] = MainWav(audio_files[idx])
    /\ err # "FileNotFoundError"
    /\ \A n \in Names :
          ContentsPath(n) \in DOMAIN files =>
              /\ AudioPath(n) \in DOMAIN files
              /\ Dirname(ContentsPath(n)) = Dirname(AudioPath(n))
              /\ Dirname(ContentsPath(n)) \in dirs

\* C9: for each entry the dataset directory exists, then the .wav is written,
\* then create_dataset_contents writes Contents.json; create_dataset_contents
\* creates no directory, is never called for a dataset whose directory is
\* absent, and no Contents.json exists whose .wav was not written.
C9_StepOrder ==
    /\ []StepOrder
    /\ [][pc = "contents" => dirs' = dirs]_vars

\* the first entry has gone through its three steps
C9_Witness ==
    /\ run = 1 /\ idx = 2 /\ pc = "makedirs"
    /\ Len(trace) = 3
    /\ trace[3] = [op |-> "contents", name |-> "block_place", err |-> "none"]
    /\ ContentsPath("block_place") \in DOMAIN files

\* C10: a run that starts from what a completed run left meets no error of
\* its own making (directories that exist are accepted), creates no new
\* directory or file, and when it completes the directories, the files and
\* their contents are those it started from.
C10_Idempotent ==
    (run >= 2 /\ start.completed) =>
        /\ err \notin {"FileExistsError", "FileNotFoundError"}
        /\ \A m \in 1..Len(trace) : trace[m].op = "makedirs" => trace[m].err = "none"
        /\ dirs = start.dirs
        /\ DOMAIN files = DOMAIN start.files
        /\ pc = "done" => files = start.files

\* a second run over a completed first run has completed
C10_Witness ==
    /\ run = 2 /\ start.completed /\ pc = "done"
    /\ Len(trace) = 3 * NumFiles
    /\ Cardinality(DOMAIN files) = 2 * NumFiles
    /\ files = start.files

-----------------------------------------------------------------------------
(* The entries of the table taken in any order, their steps interleaved:    *)
(* order[k] counts the steps entry k has done (0: none, 1: its directory,   *)
(* 2: its .wav, 3: its Contents.json); at most MaxPar entries are between   *)
(* their first and their last step at a time.  pc turns "reordered" with    *)
(* the first step that main, going down the table, would not take next.     *)

InFlight == {k \in 1..NumFiles : order[k] \in {1, 2}}
CanStep(k) ==
    /\ order[k] < 3
    /\ order[k] = 0 => Cardinality(InFlight) < MaxPar
InTableOrder(k) == \A j \in 1..(k - 1) : order[j] = 3
ParPc(k, e) ==
    IF e # "none" THEN "raised"
    ELSE IF InTableOrder(k) THEN pc ELSE "reordered"

ParInit ==
    /\ dirs = {} /\ files = <<>>
    /\ pc = "tableorder" /\ err = "none"
    /\ order = [k \in 1..NumFiles |-> 0]
    /\ idx = 0 /\ run = 0 /\ start = <<>> /\ trace = <<>>
    /\ ToneIdle

\* entry k: generate_tone up to and with os.makedirs
ParMakeDirs ==
    /\ pc \in {"tableorder", "reordered"}
    /\ \E k \in 1..NumFiles :
          /\ CanStep(k) /\ order[k] = 0
          /\ LET r == MakeDirs(Dirname(AudioPath(audio_files[k].name)), ExistOk,
                               dirs, 0)
             IN  /\ dirs' = r.dirs
                 /\ err' = r.err
                 /\ pc' = ParPc(k, r.err)
                 /\ order' = [order EXCEPT ![k] = 1]
    /\ UNCHANGED <<files, toneVars, idx, run, start, trace, call, history>>

\* entry k: the rest of generate_tone
ParWaveWrite ==
    /\ pc \in {"tableorder", "reordered"}
    /\ \E k \in 1..NumFiles :
          /\ CanStep(k) /\ order[k] = 1
          /\ LET e == audio_files[k]
                 r == WriteFile(AudioPath(e.name), MainWav(e), dirs, files, "ok")
             IN  /\ files' = r.files
                 /\ err' = r.err
                 /\ pc' = ParPc(k, r.err)
                 /\ order' = [order EXCEPT ![k] = 2]
    /\ UNCHANGED <<dirs, toneVars, idx, run, start, trace, call, history>>

\* entry k: create_dataset_contents
ParCreateContents ==
    /\ pc \in {"tableorder", "reordered"}
    /\ \E k \in 1..NumFiles :
          /\ CanStep(k) /\ order[k] = 2
          /\ LET e == audio_files[k]
                 r == WriteFile(ContentsPath(e.name), MainJson(e), dirs, files, "ok")
             IN  /\ files' = r.files
                 /\ err' = r.err
                 /\ pc' = ParPc(k, r.err)
                 /\ order' = [order EXCEPT ![k] = 3]
    /\ UNCHANGED <<dirs, toneVars, idx, run, start, trace, call, history>>

ParNext == ParMakeDirs \/ ParWaveWrite \/ ParCreateContents

SpecPar == ParInit /\ [][ParNext]_vars

\* the filesystem after main has taken entries k..NumFiles in table order, no
\* operation failing, from the filesystem fs
RECURSIVE SeqRun(_, _)
SeqRun(k, fs) ==
    IF k > NumFiles THEN fs
    ELSE LET e == audio_files[k]
             d1 == MakeDirs(Dirname(AudioPath(e.name)), ExistOk, fs.dirs, 0).dirs
             f1 == WriteFile(AudioPath(e.name), MainWav(e), d1, fs.files, "ok").files
             f2 == WriteFile(ContentsPath(e.name), MainJson(e), d1, f1, "ok").files
         IN  SeqRun(k + 1, [dirs |-> d1, files |-> f2])

AllDone == \A k \in 1..NumFiles : order[k] = 3

\* C5: taking the entries in any order, their steps interleaved, fails nowhere
\* and ends with the directories, the files and the contents that the run in
\* table order ends with; on the way every entry's files are its own.
C5_OrderIndependent ==
    (pc \in {"tableorder", "reordered", "raised"} /\ order # <<>>) =>
        /\ pc # "raised"
        /\ \A k \in 1..NumFiles :
              LET e == audio_files[k]
              IN  /\ order[k] >= 1 <=> DatasetPath(e.name) \in dirs
                  /\ order[k] >= 2 <=> AudioPath(e.name) \in DOMAIN files
                  /\ order[k] >= 2 => files[AudioPath(e.name)] = MainWav(e)
                  /\ order[k] >= 3 <=> ContentsPath(e.name) \in DOMAIN files
                  /\ order[k] >= 3 => files[ContentsPath(e.name)] = MainJson(e)
        /\ AllDone =>
              LET seq == SeqRun(1, [dirs |-> {}, files |-> <<>>])
              IN  dirs = seq.dirs /\ files = seq.files

\* all entries are done after steps that were not taken in table order
C5_Witness ==
    /\ pc = "reordered"
    /\ order # <<>> /\ AllDone
    /\ Cardinality(DOMAIN files) = 2 * NumFiles

=============================================================================
